---- MODULE Spec2Model ----
(***************************************************************************)
(* Geometry partitions of warp.fem (warp/fem/geometry/partition.py):       *)
(* WholeGeometryPartition, CellBasedGeometryPartition with its side        *)
(* classification pass, LinearGeometryPartition and                        *)
(* ExplicitGeometryPartition.                                              *)
(*                                                                         *)
(* Arrays are functions over 0..n-1, so that indices are the 0-based       *)
(* indices of the source.                                                  *)
(***************************************************************************)
EXTENDS Integers, FiniteSets, Sequences, TLC

\* ------------------------------------------------------------------ bounds
MaxCells == 3
MaxSides == 2
MaxParts == 3

\* ------------------------------------------------------- program constants
NULL_ELEMENT_INDEX == -1

VARIABLES
    geometry,                 \* self.geometry: cell count and side -> (inner, outer) adjacency
    kind,                     \* class of the partition under construction
    pc,                       \* position of the constructor
    cell_begin, cell_end,     \* LinearGeometryPartition range
    cell_mask,                \* ExplicitGeometryPartition._cell_mask
    cells,                    \* ExplicitGeometryPartition._cells
    partition_cells,          \* ExplicitGeometryPartition._partition_cells
    partition_side_mask,      \* the three masks of compute_side_indices_from_cells
    boundary_side_mask,
    frontier_side_mask,
    pending,                  \* work items (wp.tid values) of the launch not yet executed
    partition_side_indices,   \* self._partition_side_indices
    boundary_side_indices,    \* self._boundary_side_indices
    frontier_side_indices,    \* self._frontier_side_indices
    assigned,                 \* which of the three attributes the call has set
    lookup,                   \* last device-side index lookup: operation, argument, result
    partition_count,          \* P of a split of the geometry over all ranks
    parts                     \* the partitions built so far for ranks 0..Len(parts)-1

vars == <<geometry, kind, pc, cell_begin, cell_end, cell_mask, cells, partition_cells,
          partition_side_mask, boundary_side_mask, frontier_side_mask, pending,
          partition_side_indices, boundary_side_indices, frontier_side_indices,
          assigned, lookup, partition_count, parts>>

\* --------------------------------------------------------------- geometry
Min(a, b) == IF a < b THEN a ELSE b

Shape0(a) == Cardinality(DOMAIN a)

Zeros(n) == [i \in 0..(n - 1) |-> 0]

Side(i, o) == [inner |-> i, outer |-> o]

CellPairs(c) == {Side(i, o) : i \in 0..(c - 1), o \in 0..(c - 1)}

\* 1-D chain of n cells: n-1 interior sides and 2 open-end (degenerate) sides
Chain(n) ==
    [cell_count |-> n,
     sides |-> [s \in 0..n |-> IF s = 0 THEN Side(0, 0)
                               ELSE IF s = n THEN Side(n - 1, n - 1)
                               ELSE Side(s - 1, s)]]

Chain4 == Chain(4)

Geometries ==
    {Chain4} \cup
    UNION {UNION {{[cell_count |-> c, sides |-> s] : s \in [0..(n - 1) -> CellPairs(c)]}
                  : n \in 0..MaxSides}
           : c \in 0..MaxCells}

geometry_cell_count(geo) == geo.cell_count

geometry_side_count(geo) == Shape0(geo.sides)

side_inner_cell_index(geo, s) == geo.sides[s].inner

side_outer_cell_index(geo, s) == geo.sides[s].outer

\* ------------------------------------------------------ stream compaction
RECURSIVE array_scan(_, _)
\* inclusive prefix sum of mask[0..i]
array_scan(mask, i) ==
    IF i < 0 THEN 0 ELSE array_scan(mask, i - 1) + mask[i]

\* compact(mask) -> (indices, inverse); unowned slots of the inverse hold `missing`
masked_indices(mask, missing) ==
    LET n == Shape0(mask)
        count == array_scan(mask, n - 1)
    IN  <<[l \in 0..(count - 1) |->
              CHOOSE i \in DOMAIN mask : mask[i] > 0 /\ array_scan(mask, i) - 1 = l],
          [i \in DOMAIN mask |->
              IF mask[i] > 0 THEN array_scan(mask, i) - 1 ELSE missing]>>

\* ------------------------------------------------ LinearGeometryPartition
\* cells_per_partition rounded down instead of up
LinearRangeFloor(geo, partition_rank, count) ==
    LET total_cell_count == geometry_cell_count(geo)
        cells_per_partition == total_cell_count \div count
        begin == cells_per_partition * partition_rank
    IN  [cell_begin |-> begin,
         cell_end |-> Min(begin + cells_per_partition, total_cell_count)]

LinearRange(geo, partition_rank, count) ==
    LET total_cell_count == geometry_cell_count(geo)
        cells_per_partition == (total_cell_count + count - 1) \div count
        begin == cells_per_partition * partition_rank
    IN  [cell_begin |-> begin,
         cell_end |-> Min(begin + cells_per_partition, total_cell_count)]

LinearCellArgValue(begin, end) ==
    [kind |-> "Linear", cell_begin |-> begin, cell_end |-> end]

LinearCellCount(begin, end) == end - begin

\* local indices taken as 1-based
LinearCellIndexOneBased(args, partition_cell_index) ==
    args.cell_begin + partition_cell_index + 1

LinearCellIndex(args, partition_cell_index) ==
    args.cell_begin + partition_cell_index

LinearPartitionCellIndex(args, cell_index) ==
    IF cell_index > args.cell_end THEN NULL_ELEMENT_INDEX
    ELSE LET partition_cell_index == cell_index - args.cell_begin
         IN  IF partition_cell_index < 0 THEN NULL_ELEMENT_INDEX
             ELSE partition_cell_index

LinearCellInclusionTest(arg, cell_index) ==
    cell_index >= arg.cell_begin /\ cell_index < arg.cell_end

\* ---------------------------------------------- ExplicitGeometryPartition
ExplicitCellArgValue(cs, pcs) ==
    [kind |-> "Explicit", cell_index |-> cs, partition_cell_index |-> pcs]

ExplicitCellIndex(args, partition_cell_index) ==
    args.cell_index[partition_cell_index]

\* the inclusive scan value used as local index
ExplicitPartitionCellIndexInclusive(args, cell_index) ==
    args.partition_cell_index[cell_index] + 1

ExplicitPartitionCellIndex(args, cell_index) ==
    args.partition_cell_index[cell_index]

\* mask compared against 1 instead of 0
ExplicitCellInclusionTestAboveOne(mask, cell_index) ==
    mask[cell_index] > 1

ExplicitCellInclusionTest(mask, cell_index) ==
    mask[cell_index] > 0

\* ------------------------------------------------- WholeGeometryPartition
identity_element_index(args, idx) == idx

\* --------------------------------------------- CellBasedGeometryPartition
\* cell_inclusion_test_func applied to the cell_arg_value the constructor passes
cell_inclusion_test_func(cell_arg_value, cell_index) ==
    IF cell_arg_value.kind = "Linear"
    THEN LinearCellInclusionTest(cell_arg_value, cell_index)
    ELSE ExplicitCellInclusionTest(cell_arg_value.mask, cell_index)

\* frontier marked only from the inner side
count_side_fn_inner_frontier(geo, cell_arg_value, masks, side_index) ==
    LET inner_cell_index == side_inner_cell_index(geo, side_index)
        outer_cell_index == side_outer_cell_index(geo, side_index)
        inner_in == cell_inclusion_test_func(cell_arg_value, inner_cell_index)
        outer_in == cell_inclusion_test_func(cell_arg_value, outer_cell_index)
    IN  [partition_side_mask |->
             IF inner_in
             THEN [masks.partition_side_mask EXCEPT ![side_index] = 1]
             ELSE masks.partition_side_mask,
         boundary_side_mask |->
             IF inner_in /\ inner_cell_index = outer_cell_index
             THEN [masks.boundary_side_mask EXCEPT ![side_index] = 1]
             ELSE masks.boundary_side_mask,
         frontier_side_mask |->
             IF inner_in /\ ~outer_in
             THEN [masks.frontier_side_mask EXCEPT ![side_index] = 1]
             ELSE masks.frontier_side_mask]

\* boundary test outside of the `if inner_in` block
count_side_fn_unguarded_boundary(geo, cell_arg_value, masks, side_index) ==
    LET inner_cell_index == side_inner_cell_index(geo, side_index)
        outer_cell_index == side_outer_cell_index(geo, side_index)
        inner_in == cell_inclusion_test_func(cell_arg_value, inner_cell_index)
        outer_in == cell_inclusion_test_func(cell_arg_value, outer_cell_index)
    IN  [partition_side_mask |->
             IF inner_in
             THEN [masks.partition_side_mask EXCEPT ![side_index] = 1]
             ELSE masks.partition_side_mask,
         boundary_side_mask |->
             IF inner_cell_index = outer_cell_index
             THEN [masks.boundary_side_mask EXCEPT ![side_index] = 1]
             ELSE masks.boundary_side_mask,
         frontier_side_mask |->
             IF inner_in # outer_in
             THEN [masks.frontier_side_mask EXCEPT ![side_index] = 1]
             ELSE masks.frontier_side_mask]

\* frontier mark written to slot 0 instead of slot side_index
count_side_fn_shared_slot(geo, cell_arg_value, masks, side_index) ==
    LET inner_cell_index == side_inner_cell_index(geo, side_index)
        outer_cell_index == side_outer_cell_index(geo, side_index)
        inner_in == cell_inclusion_test_func(cell_arg_value, inner_cell_index)
        outer_in == cell_inclusion_test_func(cell_arg_value, outer_cell_index)
    IN  [partition_side_mask |->
             IF inner_in
             THEN [masks.partition_side_mask EXCEPT ![side_index] = 1]
             ELSE masks.partition_side_mask,
         boundary_side_mask |->
             IF inner_in /\ inner_cell_index = outer_cell_index
             THEN [masks.boundary_side_mask EXCEPT ![side_index] = 1]
             ELSE masks.boundary_side_mask,
         frontier_side_mask |->
             IF inner_in # outer_in
             THEN [masks.frontier_side_mask EXCEPT ![0] = 1]
             ELSE masks.frontier_side_mask]

\* one work item of the count_sides kernel: side_index = wp.tid()
count_side_fn(geo, cell_arg_value, masks, side_index) ==
    LET inner_cell_index == side_inner_cell_index(geo, side_index)
        outer_cell_index == side_outer_cell_index(geo, side_index)
        inner_in == cell_inclusion_test_func(cell_arg_value, inner_cell_index)
        outer_in == cell_inclusion_test_func(cell_arg_value, outer_cell_index)
    IN  [partition_side_mask |->
             IF inner_in
             THEN [masks.partition_side_mask EXCEPT ![side_index] = 1]
             ELSE masks.partition_side_mask,
         boundary_side_mask |->
             IF inner_in /\ inner_cell_index = outer_cell_index
             THEN [masks.boundary_side_mask EXCEPT ![side_index] = 1]
             ELSE masks.boundary_side_mask,
         frontier_side_mask |->
             IF inner_in # outer_in
             THEN [masks.frontier_side_mask EXCEPT ![side_index] = 1]
             ELSE masks.frontier_side_mask]

ZeroMasks(geo) ==
    [partition_side_mask |-> Zeros(geometry_side_count(geo)),
     boundary_side_mask |-> Zeros(geometry_side_count(geo)),
     frontier_side_mask |-> Zeros(geometry_side_count(geo))]

RECURSIVE SequentialLaunch(_, _, _)
\* the launch executed as a sequential pass over sides 0..dim-1
SequentialLaunch(geo, cell_arg_value, dim) ==
    IF dim = 0 THEN ZeroMasks(geo)
    ELSE count_side_fn(geo, cell_arg_value,
                       SequentialLaunch(geo, cell_arg_value, dim - 1), dim - 1)

\* compute_side_indices_from_cells run to completion
compute_side_indices_from_cells(geo, cell_arg_value) ==
    LET masks == SequentialLaunch(geo, cell_arg_value, geometry_side_count(geo))
    IN  [partition_side_indices |-> masked_indices(masks.partition_side_mask, NULL_ELEMENT_INDEX)[1],
         boundary_side_indices |-> masked_indices(masks.boundary_side_mask, NULL_ELEMENT_INDEX)[1],
         frontier_side_indices |-> masked_indices(masks.frontier_side_mask, NULL_ELEMENT_INDEX)[1]]

\* LinearGeometryPartition(geometry, partition_rank, partition_count) run to completion
LinearGeometryPartition(geo, partition_rank, count) ==
    LET range == LinearRange(geo, partition_rank, count)
        sides == compute_side_indices_from_cells(
                     geo, LinearCellArgValue(range.cell_begin, range.cell_end))
    IN  [cell_begin |-> range.cell_begin,
         cell_end |-> range.cell_end,
         partition_side_indices |-> sides.partition_side_indices,
         boundary_side_indices |-> sides.boundary_side_indices,
         frontier_side_indices |-> sides.frontier_side_indices]

\* ------------------------------------------------------------------ state
NoLookup == [op |-> "none", arg |-> 0, res |-> 0]

Init ==
    /\ geometry \in Geometries
    /\ kind = "none"
    /\ pc = "new"
    /\ cell_begin = 0
    /\ cell_end = 0
    /\ cell_mask = <<>>
    /\ cells = <<>>
    /\ partition_cells = <<>>
    /\ partition_side_mask = <<>>
    /\ boundary_side_mask = <<>>
    /\ frontier_side_mask = <<>>
    /\ pending = {}
    /\ partition_side_indices = <<>>
    /\ boundary_side_indices = <<>>
    /\ frontier_side_indices = <<>>
    /\ assigned = {}
    /\ lookup = NoLookup
    /\ partition_count = 0
    /\ parts = <<>>

\* self.cell_arg_value(device) / self._cell_mask, as passed to the classification
cell_arg_value ==
    IF kind = "Linear" THEN LinearCellArgValue(cell_begin, cell_end)
    ELSE [kind |-> "Explicit", mask |-> cell_mask]

\* allocation of the three masks and start of the launch
StartLaunch ==
    /\ partition_side_mask' = Zeros(geometry_side_count(geometry))
    /\ boundary_side_mask' = Zeros(geometry_side_count(geometry))
    /\ frontier_side_mask' = Zeros(geometry_side_count(geometry))
    /\ pending' = 0..(geometry_side_count(geometry) - 1)
    /\ pc' = "launch"

WholeInit ==
    /\ pc = "new"
    /\ kind' = "Whole"
    /\ pc' = "done"
    /\ UNCHANGED <<geometry, cell_begin, cell_end, cell_mask, cells, partition_cells,
                   partition_side_mask, boundary_side_mask, frontier_side_mask, pending,
                   partition_side_indices, boundary_side_indices, frontier_side_indices,
                   assigned, lookup, partition_count, parts>>

LinearInit(partition_rank, count) ==
    /\ pc = "new"
    /\ kind' = "Linear"
    /\ cell_begin' = LinearRange(geometry, partition_rank, count).cell_begin
    /\ cell_end' = LinearRange(geometry, partition_rank, count).cell_end
    /\ StartLaunch
    /\ UNCHANGED <<geometry, cell_mask, cells, partition_cells,
                   partition_side_indices, boundary_side_indices, frontier_side_indices,
                   assigned, lookup, partition_count, parts>>

ExplicitInit(mask, missing) ==
    /\ pc = "new"
    /\ kind' = "Explicit"
    /\ cell_mask' = mask
    /\ cells' = masked_indices(mask, missing)[1]
    /\ partition_cells' = masked_indices(mask, missing)[2]
    /\ StartLaunch
    /\ UNCHANGED <<geometry, cell_begin, cell_end,
                   partition_side_indices, boundary_side_indices, frontier_side_indices,
                   assigned, lookup, partition_count, parts>>

\* one work item of the launch; the work items run in any order
CountSides(side_index) ==
    /\ pc = "launch"
    /\ side_index \in pending
    /\ LET masks == count_side_fn(geometry, cell_arg_value,
                                  [partition_side_mask |-> partition_side_mask,
                                   boundary_side_mask |-> boundary_side_mask,
                                   frontier_side_mask |-> frontier_side_mask],
                                  side_index)
       IN  /\ partition_side_mask' = masks.partition_side_mask
           /\ boundary_side_mask' = masks.boundary_side_mask
           /\ frontier_side_mask' = masks.frontier_side_mask
    /\ pending' = pending \ {side_index}
    /\ UNCHANGED <<geometry, kind, pc, cell_begin, cell_end, cell_mask, cells, partition_cells,
                   partition_side_indices, boundary_side_indices, frontier_side_indices,
                   assigned, lookup, partition_count, parts>>

\* wp.launch raises
LaunchFails ==
    /\ pc = "launch"
    /\ pc' = "failed"
    /\ UNCHANGED <<geometry, kind, cell_begin, cell_end, cell_mask, cells, partition_cells,
                   partition_side_mask, boundary_side_mask, frontier_side_mask, pending,
                   partition_side_indices, boundary_side_indices, frontier_side_indices,
                   assigned, lookup, partition_count, parts>>

CompactPartition ==
    /\ pc = "launch"
    /\ pending = {}
    /\ partition_side_indices' = masked_indices(partition_side_mask, NULL_ELEMENT_INDEX)[1]
    /\ assigned' = assigned \cup {"partition"}
    /\ pc' = "compact_boundary"
    /\ UNCHANGED <<geometry, kind, cell_begin, cell_end, cell_mask, cells, partition_cells,
                   partition_side_mask, boundary_side_mask, frontier_side_mask, pending,
                   boundary_side_indices, frontier_side_indices,
                   lookup, partition_count, parts>>

CompactBoundary ==
    /\ pc = "compact_boundary"
    /\ boundary_side_indices' = masked_indices(boundary_side_mask, NULL_ELEMENT_INDEX)[1]
    /\ assigned' = assigned \cup {"boundary"}
    /\ pc' = "compact_frontier"
    /\ UNCHANGED <<geometry, kind, cell_begin, cell_end, cell_mask, cells, partition_cells,
                   partition_side_mask, boundary_side_mask, frontier_side_mask, pending,
                   partition_side_indices, frontier_side_indices,
                   lookup, partition_count, parts>>

CompactFrontier ==
    /\ pc = "compact_frontier"
    /\ frontier_side_indices' = masked_indices(frontier_side_mask, NULL_ELEMENT_INDEX)[1]
    /\ assigned' = assigned \cup {"frontier"}
    /\ pc' = "done"
    /\ UNCHANGED <<geometry, kind, cell_begin, cell_end, cell_mask, cells, partition_cells,
                   partition_side_mask, boundary_side_mask, frontier_side_mask, pending,
                   partition_side_indices, boundary_side_indices,
                   lookup, partition_count, parts>>

\* one of the three masked_indices calls raises
CompactFails ==
    /\ \/ pc = "launch" /\ pending = {}
       \/ pc = "compact_boundary"
       \/ pc = "compact_frontier"
    /\ pc' = "failed"
    /\ UNCHANGED <<geometry, kind, cell_begin, cell_end, cell_mask, cells, partition_cells,
                   partition_side_mask, boundary_side_mask, frontier_side_mask, pending,
                   partition_side_indices, boundary_side_indices, frontier_side_indices,
                   assigned, lookup, partition_count, parts>>

\* ------------------------------------------------------------ the counts
cell_count ==
    IF kind = "Whole" THEN geometry_cell_count(geometry)
    ELSE IF kind = "Linear" THEN LinearCellCount(cell_begin, cell_end)
    ELSE Shape0(cells)

side_count ==
    IF kind = "Whole" THEN geometry_side_count(geometry)
    ELSE Shape0(partition_side_indices)

boundary_side_count == Shape0(boundary_side_indices)

frontier_side_count ==
    IF kind = "Whole" THEN 0
    ELSE Shape0(frontier_side_indices)

\* ------------------------------------------------- device-side lookups
\* CellArg of the constructed partition
CellArg ==
    IF kind = "Linear" THEN LinearCellArgValue(cell_begin, cell_end)
    ELSE ExplicitCellArgValue(cells, partition_cells)

cell_index(args, partition_cell_index) ==
    IF kind = "Whole" THEN identity_element_index(args, partition_cell_index)
    ELSE IF kind = "Linear" THEN LinearCellIndex(args, partition_cell_index)
    ELSE ExplicitCellIndex(args, partition_cell_index)

partition_cell_index(args, global_cell_index) ==
    IF kind = "Whole" THEN identity_element_index(args, global_cell_index)
    ELSE IF kind = "Linear" THEN LinearPartitionCellIndex(args, global_cell_index)
    ELSE ExplicitPartitionCellIndex(args, global_cell_index)

\* a kernel calls cell_index; the Explicit arrays are only read inside their bounds
CellIndexCall(i) ==
    /\ pc = "done"
    /\ kind = "Explicit" => i \in DOMAIN cells
    /\ lookup' = [op |-> "cell_index", arg |-> i, res |-> cell_index(CellArg, i)]
    /\ UNCHANGED <<geometry, kind, pc, cell_begin, cell_end, cell_mask, cells, partition_cells,
                   partition_side_mask, boundary_side_mask, frontier_side_mask, pending,
                   partition_side_indices, boundary_side_indices, frontier_side_indices,
                   assigned, partition_count, parts>>

\* a kernel calls partition_cell_index
PartitionCellIndexCall(g) ==
    /\ pc = "done"
    /\ kind = "Explicit" => g \in DOMAIN partition_cells
    /\ lookup' = [op |-> "partition_cell_index", arg |-> g,
                  res |-> partition_cell_index(CellArg, g)]
    /\ UNCHANGED <<geometry, kind, pc, cell_begin, cell_end, cell_mask, cells, partition_cells,
                   partition_side_mask, boundary_side_mask, frontier_side_mask, pending,
                   partition_side_indices, boundary_side_indices, frontier_side_indices,
                   assigned, partition_count, parts>>

\* ------------------------------------- one geometry split over all ranks
\* the next rank of a split into `count` Linear partitions is constructed
ConstructRank(count) ==
    /\ \/ pc = "new"
       \/ pc = "ranks" /\ count = partition_count
    /\ Len(parts) < count
    /\ partition_count' = count
    /\ parts' = Append(parts, LinearGeometryPartition(geometry, Len(parts), count))
    /\ pc' = "ranks"
    /\ UNCHANGED <<geometry, kind, cell_begin, cell_end, cell_mask, cells, partition_cells,
                   partition_side_mask, boundary_side_mask, frontier_side_mask, pending,
                   partition_side_indices, boundary_side_indices, frontier_side_indices,
                   assigned, lookup>>

\* ------------------------------------------------------------ behaviours
CellMasks == [0..(geometry_cell_count(geometry) - 1) -> {0, 1}]

MissingValues == {NULL_ELEMENT_INDEX, 0}

LookupArgs == (-1)..(geometry_cell_count(geometry) + 1)

Next ==
    \/ WholeInit
    \/ \E count \in 1..MaxParts : \E partition_rank \in 0..(count - 1) :
           LinearInit(partition_rank, count)
    \/ \E mask \in CellMasks : \E missing \in MissingValues : ExplicitInit(mask, missing)
    \/ \E side_index \in pending : CountSides(side_index)
    \/ LaunchFails
    \/ CompactPartition
    \/ CompactBoundary
    \/ CompactFrontier
    \/ CompactFails
    \/ \E i \in LookupArgs : CellIndexCall(i)
    \/ \E g \in LookupArgs : PartitionCellIndexCall(g)
    \/ \E count \in 1..MaxParts : ConstructRank(count)

Spec == Init /\ [][Next]_vars

\* ---------------------------------------------------------------- claims
Range(a) == {a[i] : i \in DOMAIN a}

StrictlyIncreasing(a) == \A i, j \in DOMAIN a : i < j => a[i] < a[j]

SideIndices == 0..(geometry_side_count(geometry) - 1)

CellIndices == 0..(geometry_cell_count(geometry) - 1)

CellBased == kind \in {"Linear", "Explicit"}

\* the inclusion predicate of the partition under construction
In(c) == cell_inclusion_test_func(cell_arg_value, c)

AllRanksBuilt == pc = "ranks" /\ Len(parts) = partition_count

\* rank r (0-based) of the split owns global cell c
Owns(r, c) ==
    LinearCellInclusionTest(
        LinearCellArgValue(parts[r + 1].cell_begin, parts[r + 1].cell_end), c)

Ranks == 0..(partition_count - 1)

\* C1: the ranges [cell_begin, cell_end) of ranks 0..P-1 partition [0, C) exactly,
\* cell_count() is never negative, and it is 0 for every rank with cell_begin >= C.
C1_LinearRangesPartitionCells ==
    AllRanksBuilt =>
        /\ \A c \in CellIndices :
               Cardinality({r \in Ranks :
                   parts[r + 1].cell_begin <= c /\ c < parts[r + 1].cell_end}) = 1
        /\ \A r \in Ranks :
               /\ LinearCellCount(parts[r + 1].cell_begin, parts[r + 1].cell_end) >= 0
               /\ parts[r + 1].cell_begin >= geometry_cell_count(geometry)
                  => LinearCellCount(parts[r + 1].cell_begin, parts[r + 1].cell_end) = 0

\* C2: after compute_side_indices_from_cells, a side is in partition_side_indices
\* exactly when its inner cell is owned, in frontier_side_indices exactly when
\* exactly one of its two cells is owned, and in boundary_side_indices exactly
\* when its inner cell is owned and equals its outer cell.
C2_SideClassification ==
    (pc = "done" /\ CellBased) =>
        \A s \in SideIndices :
            LET i == side_inner_cell_index(geometry, s)
                o == side_outer_cell_index(geometry, s)
            IN  /\ s \in Range(partition_side_indices) <=> In(i)
                /\ s \in Range(frontier_side_indices) <=> (In(i) # In(o))
                /\ s \in Range(boundary_side_indices) <=> (In(i) /\ i = o)

C2_Witness ==
    /\ pc = "done"
    /\ CellBased
    /\ Range(frontier_side_indices) # {}
    /\ Range(boundary_side_indices) # {}
    /\ Range(partition_side_indices) # SideIndices

\* C3: Linear partition_cell_index(g) is NULL_ELEMENT_INDEX for g < cell_begin and
\* for g >= cell_end (g == cell_end included), and g - cell_begin otherwise.
C3_LinearPartitionCellIndexBounds ==
    (kind = "Linear" /\ lookup.op = "partition_cell_index") =>
        /\ (lookup.arg < cell_begin \/ lookup.arg >= cell_end)
               => lookup.res = NULL_ELEMENT_INDEX
        /\ (lookup.arg >= cell_begin /\ lookup.arg < cell_end)
               => lookup.res = lookup.arg - cell_begin
        /\ lookup.res # NULL_ELEMENT_INDEX <=> LinearCellInclusionTest(CellArg, lookup.arg)
        /\ lookup.res # NULL_ELEMENT_INDEX => lookup.res \in 0..(cell_count - 1)

\* C4: for a Linear partition and a local index i in [0, cell_count()),
\* partition_cell_index(cell_index(i)) == i and cell_index(i) is an owned cell
\* of [cell_begin, cell_end).
C4_LinearRoundTrip ==
    (kind = "Linear" /\ lookup.op = "cell_index" /\ lookup.arg \in 0..(cell_count - 1)) =>
        /\ partition_cell_index(CellArg, lookup.res) = lookup.arg
        /\ lookup.res >= cell_begin
        /\ lookup.res < cell_end
        /\ LinearCellInclusionTest(CellArg, lookup.res)

C4_Witness ==
    /\ kind = "Linear"
    /\ lookup.op = "cell_index"
    /\ cell_begin > 0
    /\ lookup.arg = cell_count - 1
    /\ lookup.arg > 0

\* C5: every side of boundary_side_indices is in partition_side_indices, so
\* boundary_side_count() <= side_count().
C5_BoundarySubsetOfPartition ==
    (pc = "done" /\ CellBased) =>
        /\ Range(boundary_side_indices) \subseteq Range(partition_side_indices)
        /\ boundary_side_count <= side_count

C5_Witness ==
    /\ pc = "done"
    /\ CellBased
    /\ boundary_side_count > 0
    /\ boundary_side_count < side_count
    /\ \E s \in SideIndices :
           /\ side_inner_cell_index(geometry, s) = side_outer_cell_index(geometry, s)
           /\ ~In(side_inner_cell_index(geometry, s))

\* C6: an Explicit partition with an all-ones mask has no frontier side, owns
\* every cell and every side of the geometry, as the Whole partition does.
C6_AllOnesMaskMatchesWhole ==
    /\ (pc = "done" /\ kind = "Explicit" /\ \A c \in DOMAIN cell_mask : cell_mask[c] = 1) =>
           /\ frontier_side_count = 0
           /\ cell_count = geometry_cell_count(geometry)
           /\ side_count = geometry_side_count(geometry)
    /\ (pc = "done" /\ kind = "Whole") =>
           /\ frontier_side_count = 0
           /\ cell_count = geometry_cell_count(geometry)
           /\ side_count = geometry_side_count(geometry)

C6_Witness ==
    /\ pc = "done"
    /\ kind = "Explicit"
    /\ \A c \in DOMAIN cell_mask : cell_mask[c] = 1
    /\ geometry_cell_count(geometry) > 1
    /\ \E s \in SideIndices :
           side_inner_cell_index(geometry, s) # side_outer_cell_index(geometry, s)

\* C7: in a split over all ranks, a side between two cells owned by two different
\* ranks is in the frontier list of exactly those two ranks and in no boundary
\* list; a degenerate side is in the boundary list of exactly the rank owning its
\* cell and in no frontier list; the 4-cell chain split in 2 gives {0,1} and {2,3}
\* with the side between cells 1 and 2 in both frontier lists.
C7_FrontierSharedByBothRanks ==
    AllRanksBuilt =>
        /\ \A s \in SideIndices :
               LET i == side_inner_cell_index(geometry, s)
                   o == side_outer_cell_index(geometry, s)
                   frontier_ranks ==
                       {r \in Ranks : s \in Range(parts[r + 1].frontier_side_indices)}
                   boundary_ranks ==
                       {r \in Ranks : s \in Range(parts[r + 1].boundary_side_indices)}
               IN  /\ \A r1, r2 \in Ranks :
                          (i # o /\ r1 # r2 /\ Owns(r1, i) /\ Owns(r2, o)) =>
                              /\ frontier_ranks = {r1, r2}
                              /\ boundary_ranks = {}
                   /\ i = o =>
                          /\ Cardinality(boundary_ranks) = 1
                          /\ boundary_ranks = {r \in Ranks : Owns(r, i)}
                          /\ frontier_ranks = {}
        /\ (geometry = Chain4 /\ partition_count = 2) =>
               /\ {c \in CellIndices : Owns(0, c)} = {0, 1}
               /\ {c \in CellIndices : Owns(1, c)} = {2, 3}
               /\ 2 \in Range(parts[1].frontier_side_indices)
               /\ 2 \in Range(parts[2].frontier_side_indices)
               /\ Range(parts[1].boundary_side_indices) = {0}
               /\ Range(parts[2].boundary_side_indices) = {4}

C7_Witness ==
    /\ AllRanksBuilt
    /\ geometry = Chain4
    /\ partition_count = 2

\* a general split: three ranks and a side whose two cells have different owners
C7_WitnessGeneral ==
    /\ AllRanksBuilt
    /\ partition_count = 3
    /\ \E s \in SideIndices : \E r1, r2 \in Ranks :
           /\ r1 # r2
           /\ Owns(r1, side_inner_cell_index(geometry, s))
           /\ Owns(r2, side_outer_cell_index(geometry, s))

\* C8: for an Explicit partition, cell_count() is the number of 1 entries of the
\* mask, cell_index is strictly increasing onto the cells whose mask is 1, and
\* cell_index and partition_cell_index are mutually inverse on owned cells.
C8_ExplicitCellMapping ==
    (kind = "Explicit") =>
        /\ cell_count = Cardinality({g \in DOMAIN cell_mask : cell_mask[g] = 1})
        /\ StrictlyIncreasing(cells)
        /\ Range(cells) = {g \in DOMAIN cell_mask : cell_mask[g] = 1}
        /\ \A l \in 0..(cell_count - 1) :
               ExplicitPartitionCellIndex(CellArg, ExplicitCellIndex(CellArg, l)) = l
        /\ \A g \in DOMAIN cell_mask :
               cell_mask[g] = 1 =>
                   ExplicitCellIndex(CellArg, ExplicitPartitionCellIndex(CellArg, g)) = g
        /\ (lookup.op = "partition_cell_index" /\ cell_mask[lookup.arg] = 1) =>
               cell_index(CellArg, lookup.res) = lookup.arg
        /\ lookup.op = "cell_index" =>
               partition_cell_index(CellArg, lookup.res) = lookup.arg

C8_Witness ==
    /\ kind = "Explicit"
    /\ pc = "done"
    /\ geometry_cell_count(geometry) = 3
    /\ cell_mask[0] = 0
    /\ cell_mask[1] = 1
    /\ cell_mask[2] = 1
    /\ lookup.op = "partition_cell_index"
    /\ lookup.arg = 2

\* C9: when the launch or one of the three compactions fails, the call leaves
\* either none or all of _partition_side_indices, _boundary_side_indices and
\* _frontier_side_indices set.
C9_NoPartialInitialization ==
    pc \in {"failed", "done"} =>
        assigned \in {{}, {"partition", "boundary", "frontier"}}

\* C10: the work item of side s writes only slot s of the three masks, so in every
\* interleaving the slots of the sides not yet processed are untouched, the slots
\* of the processed sides hold what a sequential pass over 0..side_count-1 writes,
\* and the final masks and ascending index arrays are those of the sequential pass.
C10_LaunchOrderIndependent ==
    (CellBased /\ pc # "failed") =>
        LET seq_masks == SequentialLaunch(geometry, cell_arg_value,
                                          geometry_side_count(geometry))
            seq_indices == compute_side_indices_from_cells(geometry, cell_arg_value)
        IN  /\ \A s \in SideIndices :
                   IF s \in pending
                   THEN /\ partition_side_mask[s] = 0
                        /\ boundary_side_mask[s] = 0
                        /\ frontier_side_mask[s] = 0
                   ELSE /\ partition_side_mask[s] = seq_masks.partition_side_mask[s]
                        /\ boundary_side_mask[s] = seq_masks.boundary_side_mask[s]
                        /\ frontier_side_mask[s] = seq_masks.frontier_side_mask[s]
            /\ pc = "done" =>
                   /\ partition_side_indices = seq_indices.partition_side_indices
                   /\ boundary_side_indices = seq_indices.boundary_side_indices
                   /\ frontier_side_indices = seq_indices.frontier_side_indices
                   /\ StrictlyIncreasing(partition_side_indices)
                   /\ StrictlyIncreasing(boundary_side_indices)
                   /\ StrictlyIncreasing(frontier_side_indices)

\* the last side of the geometry ran first and marked its slot
C10_Witness ==
    /\ CellBased
    /\ pc = "launch"
    /\ geometry_side_count(geometry) >= 2
    /\ pending = SideIndices \ {geometry_side_count(geometry) - 1}
    /\ partition_side_mask[geometry_side_count(geometry) - 1] = 1

====
